---- MODULE Spec2Model ----
(***************************************************************************)
(* docs/conf.py of Neyson: the Sphinx configuration file.  The file is a   *)
(* sequence of twelve module-level assignment statements.  Loading it      *)
(* executes the statements top to bottom into one flat namespace; after    *)
(* the load the documentation build reads the keys of that namespace.      *)
(*                                                                         *)
(* Python values carry their dynamic type: a str is a tagged sequence of   *)
(* characters, a list a tagged sequence of values, a dict a tagged         *)
(* sequence of <<key, value>> pairs in insertion order.                    *)
(***************************************************************************)
EXTENDS Naturals, Sequences, FiniteSets, TLC

VARIABLES ns,      \* the module namespace: a function from bound names to values
          pc,      \* index into Program of the next statement to execute
          status,  \* "ok", or the exception that aborted the load
          stores,  \* per name, how many times the load has stored to it
          seen     \* what the build has read so far: key -> value it was given

vars == <<ns, pc, status, stores, seen>>

----------------------------------------------------------------------------
(* Python values *)

Str(cs) == [type |-> "str", val |-> cs]
List(xs) == [type |-> "list", val |-> xs]
Dict(ps) == [type |-> "dict", val |-> ps]

----------------------------------------------------------------------------
(* The literals of docs/conf.py, under the names the file binds them to *)

\* line 9: project = 'Neyson'
project ==
    Str(<<"N", "e", "y", "s", "o", "n">>)

\* line 10: copyright = '2025, Shahriar Rezghi'
copyright ==
    Str(<<"2", "0", "2", "5", ",", " ", "S", "h", "a", "h", "r", "i", "a", "r",
          " ", "R", "e", "z", "g", "h", "i">>)

\* line 11: author = 'Shahriar Rezghi'
author ==
    Str(<<"S", "h", "a", "h", "r", "i", "a", "r", " ", "R", "e", "z", "g", "h", "i">>)

\* line 12: release = '2025'
release ==
    Str(<<"2", "0", "2", "5">>)

\* A build that dropped the theme package from the plugin list.
extensions_without_theme ==
    List(<<Str(<<"b", "r", "e", "a", "t", "h", "e">>),
           Str(<<"s", "p", "h", "i", "n", "x", "_", "t", "o", "g", "g", "l", "e",
                 "b", "u", "t", "t", "o", "n">>)>>)

\* line 17: extensions = ['breathe', 'sphinx_rtd_theme', 'sphinx_togglebutton']
extensions ==
    List(<<Str(<<"b", "r", "e", "a", "t", "h", "e">>),
           Str(<<"s", "p", "h", "i", "n", "x", "_", "r", "t", "d", "_", "t", "h",
                 "e", "m", "e">>),
           Str(<<"s", "p", "h", "i", "n", "x", "_", "t", "o", "g", "g", "l", "e",
                 "b", "u", "t", "t", "o", "n">>)>>)

\* line 19: templates_path = ['_templates']
templates_path ==
    List(<<Str(<<"_", "t", "e", "m", "p", "l", "a", "t", "e", "s">>)>>)

\* The exclusion list with the build directory left out.
exclude_patterns_without_build ==
    List(<<Str(<<"T", "h", "u", "m", "b", "s", ".", "d", "b">>),
           Str(<<".", "D", "S", "_", "S", "t", "o", "r", "e">>)>>)

\* line 20: exclude_patterns = ['_build', 'Thumbs.db', '.DS_Store']
exclude_patterns ==
    List(<<Str(<<"_", "b", "u", "i", "l", "d">>),
           Str(<<"T", "h", "u", "m", "b", "s", ".", "d", "b">>),
           Str(<<".", "D", "S", "_", "S", "t", "o", "r", "e">>)>>)

\* line 22: breathe_projects = {'Neyson': '_build/xml/'}
breathe_projects ==
    Dict(<< <<Str(<<"N", "e", "y", "s", "o", "n">>),
              Str(<<"_", "b", "u", "i", "l", "d", "/", "x", "m", "l", "/">>)>> >>)

\* The default project written in lower case.
breathe_default_project_lowercase ==
    Str(<<"n", "e", "y", "s", "o", "n">>)

\* line 23: breathe_default_project = 'Neyson'
breathe_default_project ==
    Str(<<"N", "e", "y", "s", "o", "n">>)

\* line 28: html_theme = 'sphinx_rtd_theme'
html_theme ==
    Str(<<"s", "p", "h", "i", "n", "x", "_", "r", "t", "d", "_", "t", "h", "e", "m", "e">>)

\* The static path written as a bare string instead of a one-element list.
html_static_path_bare_string ==
    Str(<<"_", "s", "t", "a", "t", "i", "c">>)

\* line 29: html_static_path = ['_static']
html_static_path ==
    List(<<Str(<<"_", "s", "t", "a", "t", "i", "c">>)>>)

\* The logo placed in the images directory rather than the static one.
html_logo_in_images ==
    Str(<<"_", "i", "m", "a", "g", "e", "s", "/", "l", "o", "g", "o", "-", "6", "4",
          ".", "p", "n", "g">>)

\* line 30: html_logo = '_static/logo-64.png'
html_logo ==
    Str(<<"_", "s", "t", "a", "t", "i", "c", "/", "l", "o", "g", "o", "-", "6", "4",
          ".", "p", "n", "g">>)

----------------------------------------------------------------------------
(* The statements of the file *)

\* An expression is a literal or a reference to a name of the namespace.
Literal(v) == [kind |-> "literal", value |-> v]
Name(n) == [kind |-> "name", id |-> n]

\* target = expr
Assign(t, e) == [op |-> "assign", target |-> t, expr |-> e]

\* The file with release assigned a second time further down.
ProgramReassigningRelease ==
    << Assign("project", Literal(project)),
       Assign("copyright", Literal(copyright)),
       Assign("author", Literal(author)),
       Assign("release", Literal(release)),
       Assign("extensions", Literal(extensions)),
       Assign("templates_path", Literal(templates_path)),
       Assign("exclude_patterns", Literal(exclude_patterns)),
       Assign("breathe_projects", Literal(breathe_projects)),
       Assign("breathe_default_project", Literal(breathe_default_project)),
       Assign("html_theme", Literal(html_theme)),
       Assign("html_static_path", Literal(html_static_path)),
       Assign("html_logo", Literal(html_logo)),
       Assign("release", Literal(project)) >>

\* The file with the default project taken from a name that is never bound.
ProgramReadingUnboundName ==
    << Assign("project", Literal(project)),
       Assign("copyright", Literal(copyright)),
       Assign("author", Literal(author)),
       Assign("release", Literal(release)),
       Assign("extensions", Literal(extensions)),
       Assign("templates_path", Literal(templates_path)),
       Assign("exclude_patterns", Literal(exclude_patterns)),
       Assign("breathe_projects", Literal(breathe_projects)),
       Assign("breathe_default_project", Name("project_name")),
       Assign("html_theme", Literal(html_theme)),
       Assign("html_static_path", Literal(html_static_path)),
       Assign("html_logo", Literal(html_logo)) >>

\* docs/conf.py, lines 9-30: the statements in file order.
Program ==
    << Assign("project", Literal(project)),
       Assign("copyright", Literal(copyright)),
       Assign("author", Literal(author)),
       Assign("release", Literal(release)),
       Assign("extensions", Literal(extensions)),
       Assign("templates_path", Literal(templates_path)),
       Assign("exclude_patterns", Literal(exclude_patterns)),
       Assign("breathe_projects", Literal(breathe_projects)),
       Assign("breathe_default_project", Literal(breathe_default_project)),
       Assign("html_theme", Literal(html_theme)),
       Assign("html_static_path", Literal(html_static_path)),
       Assign("html_logo", Literal(html_logo)) >>

\* The load is complete once every statement has run.
Loaded == pc = Len(Program) + 1 /\ status = "ok"

----------------------------------------------------------------------------
(* Loading the file *)

\* The function f extended or overwritten at k.
Bind(f, k, v) == [x \in DOMAIN f \cup {k} |-> IF x = k THEN v ELSE f[x]]

\* Whether evaluating e in namespace n raises: a literal never does, a name
\* raises NameError when it is not bound.
Raises(e, n) == e.kind = "name" /\ e.id \notin DOMAIN n

\* The value of e in namespace n, when it does not raise.
Eval(e, n) == IF e.kind = "literal" THEN e.value ELSE n[e.id]

Init ==
    /\ ns = << >>
    /\ pc = 1
    /\ status = "ok"
    /\ stores = << >>
    /\ seen = << >>

\* Execute the statement at pc: evaluate its right-hand side and store the
\* value under the target name; an exception aborts the load where it is.
ExecStatement ==
    /\ status = "ok"
    /\ pc \in 1..Len(Program)
    /\ LET s == Program[pc] IN
         IF Raises(s.expr, ns)
         THEN /\ status' = "NameError"
              /\ UNCHANGED <<ns, pc, stores>>
         ELSE /\ ns' = Bind(ns, s.target, Eval(s.expr, ns))
              /\ stores' = Bind(stores, s.target,
                                IF s.target \in DOMAIN stores
                                THEN stores[s.target] + 1 ELSE 1)
              /\ pc' = pc + 1
              /\ UNCHANGED status
    /\ UNCHANGED seen

\* The documentation build reads key k of the loaded namespace; each key
\* is read once, in whatever order the build asks for them.
ReadKey(k) ==
    /\ Loaded
    /\ k \in DOMAIN ns
    /\ k \notin DOMAIN seen
    /\ seen' = Bind(seen, k, ns[k])
    /\ UNCHANGED <<ns, pc, status, stores>>

ReadConfig == \E k \in DOMAIN ns : ReadKey(k)

Next == ExecStatement \/ ReadConfig

Spec == Init /\ [][Next]_vars

\* The interpreter runs a module's statements one after another without
\* waiting on anything, so a statement that can run does run.
LiveSpec == Spec /\ WF_vars(ExecStatement)

----------------------------------------------------------------------------
(* Reading values apart *)

\* The elements of a list value, the keys and the values of a dict value.
Elements(v) == {v.val[i] : i \in 1..Len(v.val)}
DictKeys(d) == {d.val[i][1] : i \in 1..Len(d.val)}
DictValues(d) == {d.val[i][2] : i \in 1..Len(d.val)}

IsStr(v) == v.type = "str"
IsListOfStr(v) == v.type = "list" /\ \A e \in Elements(v) : IsStr(e)
IsDictStrToStr(v) ==
    /\ v.type = "dict"
    /\ \A i \in 1..Len(v.val) : IsStr(v.val[i][1]) /\ IsStr(v.val[i][2])

\* The position of the first "/" of a path, or one past its end.
FirstSlash(cs) ==
    IF \E i \in 1..Len(cs) : cs[i] = "/"
    THEN CHOOSE i \in 1..Len(cs) :
             cs[i] = "/" /\ \A j \in 1..(i - 1) : cs[j] # "/"
    ELSE Len(cs) + 1

\* The first component of a "/"-separated path: path.split('/')[0].
FirstComponent(cs) == SubSeq(cs, 1, FirstSlash(cs) - 1)

\* The twelve keys of the data model.
StrKeys == {"project", "copyright", "author", "release",
            "breathe_default_project", "html_theme", "html_logo"}
ListKeys == {"extensions", "templates_path", "exclude_patterns",
             "html_static_path"}
DictKeySet == {"breathe_projects"}
ConfigKeys == StrKeys \cup ListKeys \cup DictKeySet

\* The literal the file writes for key k.
ConfLiteral(k) ==
    CASE k = "project" -> project
      [] k = "copyright" -> copyright
      [] k = "author" -> author
      [] k = "release" -> release
      [] k = "extensions" -> extensions
      [] k = "templates_path" -> templates_path
      [] k = "exclude_patterns" -> exclude_patterns
      [] k = "breathe_projects" -> breathe_projects
      [] k = "breathe_default_project" -> breathe_default_project
      [] k = "html_theme" -> html_theme
      [] k = "html_static_path" -> html_static_path
      [] k = "html_logo" -> html_logo

----------------------------------------------------------------------------
(* The claims *)

\* C1: in the namespace produced by loading the file, the value of
\* breathe_default_project is a key of the breathe_projects mapping.
C1_DefaultProjectResolves ==
    Loaded =>
        /\ {"breathe_projects", "breathe_default_project"} \subseteq DOMAIN ns
        /\ ns["breathe_projects"].type = "dict"
        /\ ns["breathe_default_project"] \in DictKeys(ns["breathe_projects"])

\* The build has read the default project and it names a Breathe project.
C1_Witness ==
    /\ Loaded
    /\ "breathe_default_project" \in DOMAIN seen
    /\ seen["breathe_default_project"] \in DictKeys(ns["breathe_projects"])

\* C2: loading the file defines exactly the twelve keys of the data model,
\* each with its stated type: seven strings, four sequences of strings and
\* one mapping from string to string.
C2_TwelveTypedKeys ==
    Loaded =>
        /\ DOMAIN ns = ConfigKeys
        /\ \A k \in StrKeys : IsStr(ns[k])
        /\ \A k \in ListKeys : IsListOfStr(ns[k])
        /\ \A k \in DictKeySet : IsDictStrToStr(ns[k])

\* The load has bound twelve names.
C2_Witness == Loaded /\ Cardinality(DOMAIN ns) = 12

\* C3: every key is stored exactly once during the load and from a literal,
\* never from another key; once the load is complete no step changes the
\* namespace; every value the build reads is the literal the file writes.
C3_AssignedOnceThenFrozen ==
    /\ [](/\ \A k \in DOMAIN ns : stores[k] = 1
          /\ \A i \in 1..(pc - 1) : Program[i].expr.kind = "literal"
          /\ \A k \in DOMAIN seen : k \in ConfigKeys /\ seen[k] = ConfLiteral(k))
    /\ [][Loaded => ns' = ns]_vars

\* The build has read every key of the loaded namespace.
C3_Witness ==
    /\ Loaded
    /\ DOMAIN ns # {}
    /\ DOMAIN seen = DOMAIN ns

\* C4: the load is a straight line of literal assignments: no exception is
\* ever raised, each step of the load moves on to the following statement,
\* the load terminates, and it always ends in the one namespace of the
\* file's literals.
C4_LoadStraightLineNoError ==
    /\ [](status = "ok")
    /\ [](\A i \in 1..Len(Program) :
              Program[i].op = "assign" /\ Program[i].expr.kind = "literal")
    /\ [][(pc \in 1..Len(Program)) => (pc' = pc + 1)]_vars
    /\ [](Loaded => ns = [k \in ConfigKeys |-> ConfLiteral(k)])
    /\ <>Loaded

\* The load has just completed, before the build reads anything.
C4_Witness ==
    /\ Loaded
    /\ DOMAIN seen = {}
    /\ DOMAIN ns = ConfigKeys

\* C5: the theme named by html_theme is an element of extensions.
C5_ThemeIsAnExtension ==
    Loaded =>
        /\ {"html_theme", "extensions"} \subseteq DOMAIN ns
        /\ ns["extensions"].type = "list"
        /\ ns["html_theme"] \in Elements(ns["extensions"])

\* The build has read both the theme and the plugin list.
C5_Witness ==
    /\ Loaded
    /\ {"html_theme", "extensions"} \subseteq DOMAIN seen
    /\ seen["html_theme"] \in Elements(seen["extensions"])

\* C6: html_logo lies inside a directory of html_static_path: the logo path
\* has a directory part and its first component is an element of
\* html_static_path.
C6_LogoUnderStaticPath ==
    Loaded =>
        /\ {"html_logo", "html_static_path"} \subseteq DOMAIN ns
        /\ ns["html_logo"].type = "str"
        /\ ns["html_static_path"].type = "list"
        /\ FirstSlash(ns["html_logo"].val) <= Len(ns["html_logo"].val)
        /\ Str(FirstComponent(ns["html_logo"].val))
               \in Elements(ns["html_static_path"])

\* The build has read the logo path and the static path, and the logo's
\* directory is "_static".
C6_Witness ==
    /\ Loaded
    /\ {"html_logo", "html_static_path"} \subseteq DOMAIN seen
    /\ FirstComponent(seen["html_logo"].val) = <<"_", "s", "t", "a", "t", "i", "c">>

\* C7: for every value of breathe_projects, its first path component is an
\* element of exclude_patterns.
C7_XmlDirsExcluded ==
    Loaded =>
        /\ {"breathe_projects", "exclude_patterns"} \subseteq DOMAIN ns
        /\ ns["breathe_projects"].type = "dict"
        /\ ns["exclude_patterns"].type = "list"
        /\ \A v \in DictValues(ns["breathe_projects"]) :
               /\ v.type = "str"
               /\ Str(FirstComponent(v.val)) \in Elements(ns["exclude_patterns"])

\* The build has read a non-empty breathe_projects and the exclusion list,
\* and some XML directory starts with "_build".
C7_Witness ==
    /\ Loaded
    /\ {"breathe_projects", "exclude_patterns"} \subseteq DOMAIN seen
    /\ \E v \in DictValues(seen["breathe_projects"]) :
           FirstComponent(v.val) = <<"_", "b", "u", "i", "l", "d">>

====
